---- MODULE Spec2Model ----
(***************************************************************************)
(* WedSync TEST-WORKFLOW orchestrator (orchestrator.py): complexity        *)
(* scoring, routing of issues to SPEED / DEEP / SKIP jobs, and the job     *)
(* queues written by process_issues; the batch queues of the cost          *)
(* optimization system (cost-optimization-system.py) and the disaster      *)
(* response of disaster-recovery-system.py.                                *)
(*                                                                         *)
(* Python strings that the code lower-cases, searches or concatenates are  *)
(* sequences of one-character strings; strings that are only compared or   *)
(* stored (job types, pattern names, agent roles) are TLA+ strings.        *)
(***************************************************************************)
EXTENDS Integers, Sequences, FiniteSets, TLC

VARIABLES
    patterns,   \* self.patterns: the pattern library loaded by __init__
    stats,      \* self.stats
    store,      \* job files under JOB-QUEUES: <<queue dir, job id>> -> file content
    pc,         \* position of the caller: "idle", "processing", "done", "raised"
    issues,     \* the list given to the running process_issues call
    idx,        \* number of loop iterations of process_issues completed
    routed,     \* the jobs route_issue returned to the running process_issues call
    scored,     \* every <<issue, score>> calculate_complexity has produced
    clock,      \* datetime.now()
    runs,       \* process_issues calls started so far
    arg,        \* argument of a direct call of route_issue
    ret,        \* what that call returned
    mpc,        \* position of main(): "idle", "ingesting", "ingested", "raised"
    unread,     \* report files of INCOMING/ that main() has not ingested yet
    all_issues, \* main()'s all_issues
    ingested,   \* every report ingested so far, with the issues it produced
    queues,     \* the Redis lists batch:<priority>: index 1 is the head (left end)
    time,       \* datetime.now() of the batch processor, in seconds
    added,      \* add_to_batch_queue calls made so far
    accepted,   \* ids of the jobs the AI processing service answered with HTTP 200
    popped,     \* ids of the jobs _process_priority_queue has taken off a queue
    last_call,  \* the last _process_priority_queue call: queue before, batch, result
    bpc,        \* position of run_cost_optimization_loop: "idle" or the priority in turn
    dpc,        \* position of handle_disaster_scenario: "idle", "executing", "returned", "raised"
    disaster,   \* the arguments and collaborators of the running handle_disaster_scenario
    step_idx,   \* steps of the response plan the loop has taken up so far
    execution_results, \* handle_disaster_scenario's execution_results
    escalated,  \* the steps _escalate_wedding_day_issue was called for
    response    \* what handle_disaster_scenario returned

\* the variables of main()'s ingestion loop
mainVars == <<mpc, unread, all_issues, ingested>>

\* the variables of the batch processor
batchVars == <<queues, time, added, accepted, popped, last_call, bpc>>

\* the variables of the disaster response
disasterVars == <<dpc, disaster, step_idx, execution_results, escalated, response>>

\* the variables of the orchestrator
orchestratorVars == <<patterns, stats, store, pc, issues, idx, routed, scored, clock, runs,
                      arg, ret, mpc, unread, all_issues, ingested>>

vars == <<patterns, stats, store, pc, issues, idx, routed, scored, clock, runs, arg, ret,
          mpc, unread, all_issues, ingested,
          queues, time, added, accepted, popped, last_call, bpc,
          dpc, disaster, step_idx, execution_results, escalated, response>>

\* no batch processor and no disaster response is running
BatchIdle ==
    /\ queues = [p \in {"urgent", "standard", "low_priority"} |-> << >>]
    /\ time = 0
    /\ added = 0
    /\ accepted = {}
    /\ popped = {}
    /\ last_call = << >>
    /\ bpc = "idle"

DisasterIdle ==
    /\ dpc = "idle"
    /\ disaster = << >>
    /\ step_idx = 0
    /\ execution_results = << >>
    /\ escalated = << >>
    /\ response = << >>

\* Bounds of the model.
MaxIssues == 2
MaxRuns == 1

None == "<None>"

----------------------------------------------------------------------------
\* Python string operations on character sequences.

Min(S) == CHOOSE x \in S : \A y \in S : x <= y

\* c.lower() for one character
LowerChar(c) ==
    CASE c = "A" -> "a" [] c = "B" -> "b" [] c = "C" -> "c" [] c = "D" -> "d"
      [] c = "E" -> "e" [] c = "F" -> "f" [] c = "G" -> "g" [] c = "H" -> "h"
      [] c = "I" -> "i" [] c = "J" -> "j" [] c = "K" -> "k" [] c = "L" -> "l"
      [] c = "M" -> "m" [] c = "N" -> "n" [] c = "O" -> "o" [] c = "P" -> "p"
      [] c = "Q" -> "q" [] c = "R" -> "r" [] c = "S" -> "s" [] c = "T" -> "t"
      [] c = "U" -> "u" [] c = "V" -> "v" [] c = "W" -> "w" [] c = "X" -> "x"
      [] c = "Y" -> "y" [] c = "Z" -> "z" [] OTHER -> c

\* s.lower()
Lower(s) == [i \in 1..Len(s) |-> LowerChar(s[i])]

\* sub in s
Contains(s, sub) ==
    \E i \in 1..(Len(s) - Len(sub) + 1) : SubSeq(s, i, i + Len(sub) - 1) = sub

\* s.replace(old, new): non-overlapping occurrences, left to right
RECURSIVE Replace(_, _, _)
Replace(s, old, new) ==
    IF Len(s) < Len(old) THEN s
    ELSE IF SubSeq(s, 1, Len(old)) = old
         THEN new \o Replace(SubSeq(s, Len(old) + 1, Len(s)), old, new)
         ELSE <<s[1]>> \o Replace(Tail(s), old, new)

----------------------------------------------------------------------------
\* load_patterns: the default library written when no pattern-library.json exists
default_patterns ==
    LET k1 == <<"s","o","n","a","r","-","S","3","5","1","6">>
        k2 == <<"s","o","n","a","r","-","S","1","2","8">>
        k3 == <<"t","y","p","e","s","c","r","i","p","t","-","m","i","s","s","i","n","g","-","a","w","a","i","t">>
    IN  [k \in {k1, k2, k3} |->
           IF k = k1 THEN [name |-> "single-return-refactor", complexity |-> 2,
                           verification |-> "BASIC", estimated_minutes |-> 5]
           ELSE IF k = k2 THEN [name |-> "switch-case-breaks", complexity |-> 1,
                           verification |-> "BASIC", estimated_minutes |-> 3]
           ELSE [name |-> "async-await-fix", complexity |-> 3,
                           verification |-> "MEDIUM", estimated_minutes |-> 8]]

\* severity_scores.get(severity, 3)
severity_scores(severity) ==
    CASE severity = <<"B","L","O","C","K","E","R">> -> 8
      [] severity = <<"C","R","I","T","I","C","A","L">> -> 6
      [] severity = <<"M","A","J","O","R">> -> 4
      [] severity = <<"M","I","N","O","R">> -> 2
      [] severity = <<"I","N","F","O">> -> 1
      [] OTHER -> 3

sensitive_paths ==
    { <<"/","a","p","i","/">>, <<"/","a","u","t","h","/">>,
      <<"/","p","a","y","m","e","n","t","/">>,
      <<"/","m","a","r","k","e","t","p","l","a","c","e","/">> }

\* issue.rule_id.lower().replace('ts', 'typescript-')
pattern_key(issue) ==
    Replace(Lower(issue.rule_id), <<"t","s">>,
            <<"t","y","p","e","s","c","r","i","p","t","-">>)

\* the score after the severity base and the library lookup
BaseOrLibrary(issue) ==
    LET score == severity_scores(issue.severity)
    IN  IF pattern_key(issue) \in DOMAIN patterns
        THEN LET entry == patterns[pattern_key(issue)]
             IN  IF "complexity" \in DOMAIN entry THEN entry.complexity ELSE score
        ELSE score

PathBonus(issue) ==
    IF \E p \in sensitive_paths : Contains(Lower(issue.file_path), p) THEN 3 ELSE 0

\* the two category bonuses exchanged
CategoryBonus_swapped(issue) ==
    IF issue.category = "security" THEN 2
    ELSE IF issue.category = "performance" THEN 4 ELSE 0

CategoryBonus(issue) ==
    IF issue.category = "security" THEN 4
    ELSE IF issue.category = "performance" THEN 2 ELSE 0

\* `return score` without min(score, 10)
Clamp_none(score) == score

Clamp(score) == IF score < 10 THEN score ELSE 10

\* a score that grows with the speed jobs already saved
calculate_complexity_stateful(issue) ==
    Clamp(BaseOrLibrary(issue) + PathBonus(issue) + CategoryBonus(issue) + stats.speed_jobs)

calculate_complexity(issue) ==
    Clamp(BaseOrLibrary(issue) + PathBonus(issue) + CategoryBonus(issue))

----------------------------------------------------------------------------
\* d.get(key): None when the key is absent
Get(d, key) == IF key \in DOMAIN d THEN d[key] ELSE None

\* check_already_resolved: env is what the file system and git answer
check_already_resolved(issue, env) ==
    IF Get(issue.raw_data, "status") = "NEW" THEN FALSE
    ELSE IF ~env.file_exists THEN TRUE
    ELSE IF env.blame = "raises" THEN FALSE
    ELSE IF env.blame = "nonzero" THEN FALSE
    ELSE env.blame = "fix_commit"

\* find_similar_fixes: the commits git log --grep lists, [] on failure
find_similar_fixes(issue, env) ==
    IF env.git_log = "hit" THEN <<"b0b8db5">> ELSE <<>>

rule_patterns ==
    << <<<<"S","3","5","1","6">>, "pattern-single-return">>,
       <<<<"S","1","2","8">>,     "pattern-switch-cases">>,
       <<<<"2","7","9","4">>,     "pattern-async-await">>,
       <<<<"2","3","0","7">>,     "pattern-import-fixes">>,
       <<<<"2","3","4","5">>,     "pattern-type-assertions">> >>

\* the last matching fragment in place of the first
get_pattern_name_last(issue) ==
    LET hits == {i \in 1..Len(rule_patterns) : Contains(issue.rule_id, rule_patterns[i][1])}
    IN  IF hits = {} THEN "pattern-general"
        ELSE rule_patterns[CHOOSE i \in hits : \A j \in hits : j <= i][2]

get_pattern_name(issue) ==
    LET hits == {i \in 1..Len(rule_patterns) : Contains(issue.rule_id, rule_patterns[i][1])}
    IN  IF hits = {} THEN "pattern-general" ELSE rule_patterns[Min(hits)][2]

JobId(issue) == <<"j","o","b","-">> \o issue.id

\* `complexity < 3` in place of `complexity <= 3`
SpeedThreshold_exclusive == 3 - 1

SpeedThreshold == 3
ArchitectureThreshold == 8

\* `complexity > 8` in place of `complexity >= 8`
agents_needed_strict(issue, complexity) ==
    (IF issue.category = "security" \/ Contains(Lower(issue.file_path), <<"a","u","t","h">>)
     THEN <<"security-officer">> ELSE <<>>)
    \o (IF complexity > ArchitectureThreshold THEN <<"architecture-reviewer">> ELSE <<>>)

agents_needed(issue, complexity) ==
    (IF issue.category = "security" \/ Contains(Lower(issue.file_path), <<"a","u","t","h">>)
     THEN <<"security-officer">> ELSE <<>>)
    \o (IF complexity >= ArchitectureThreshold THEN <<"architecture-reviewer">> ELSE <<>>)

\* a SKIP job that carries the score of its issue
skip_job_scored(issue, now) ==
    [id |-> JobId(issue), issue |-> issue, job_type |-> "SKIP",
     complexity_score |-> calculate_complexity(issue), estimated_minutes |-> 1,
     pattern |-> "already-resolved", requires_agents |-> <<>>,
     verification_level |-> "NONE", similar_fixes |-> <<>>, created_at |-> now]

\* the Job route_issue builds for an issue that is already resolved
skip_job(issue, now) ==
    [id |-> JobId(issue), issue |-> issue, job_type |-> "SKIP",
     complexity_score |-> 0, estimated_minutes |-> 1,
     pattern |-> "already-resolved", requires_agents |-> <<>>,
     verification_level |-> "NONE", similar_fixes |-> <<>>, created_at |-> now]

\* the Job of the SPEED branch
speed_job(issue, complexity, similar_fixes, now) ==
    [id |-> JobId(issue), issue |-> issue, job_type |-> "SPEED",
     complexity_score |-> complexity, estimated_minutes |-> 5,
     pattern |-> get_pattern_name(issue), requires_agents |-> <<>>,
     verification_level |-> "BASIC", similar_fixes |-> similar_fixes,
     created_at |-> now]

\* the estimate of the SPEED branch's scale: `complexity * 2`
deep_job_short(issue, complexity, similar_fixes, now) ==
    [id |-> JobId(issue), issue |-> issue, job_type |-> "DEEP",
     complexity_score |-> complexity, estimated_minutes |-> complexity * 2,
     pattern |-> None, requires_agents |-> agents_needed(issue, complexity),
     verification_level |-> "COMPREHENSIVE", similar_fixes |-> similar_fixes,
     created_at |-> now]

\* the Job of the DEEP branch
deep_job(issue, complexity, similar_fixes, now) ==
    [id |-> JobId(issue), issue |-> issue, job_type |-> "DEEP",
     complexity_score |-> complexity, estimated_minutes |-> complexity * 3,
     pattern |-> None, requires_agents |-> agents_needed(issue, complexity),
     verification_level |-> "COMPREHENSIVE", similar_fixes |-> similar_fixes,
     created_at |-> now]

\* the complexity routed on before the already-resolved check is consulted
route_issue_score_first(issue, env, now) ==
    LET complexity == calculate_complexity(issue)
        similar_fixes == find_similar_fixes(issue, env)
    IN  IF complexity > SpeedThreshold
        THEN deep_job(issue, complexity, similar_fixes, now)
        ELSE IF check_already_resolved(issue, env)
             THEN skip_job(issue, now)
             ELSE speed_job(issue, complexity, similar_fixes, now)

route_issue(issue, env, now) ==
    IF check_already_resolved(issue, env)
    THEN skip_job(issue, now)
    ELSE LET complexity == calculate_complexity(issue)
             similar_fixes == find_similar_fixes(issue, env)
         IN  IF complexity <= SpeedThreshold
             THEN speed_job(issue, complexity, similar_fixes, now)
             ELSE deep_job(issue, complexity, similar_fixes, now)

----------------------------------------------------------------------------
\* an unrecognized severity mapped to INFO
map_coderabbit_severity_info(severity) ==
    LET s == Lower(severity)
    IN  CASE s = <<"c","r","i","t","i","c","a","l">> -> <<"C","R","I","T","I","C","A","L">>
          [] s = <<"m","a","j","o","r">> -> <<"M","A","J","O","R">>
          [] s = <<"m","i","n","o","r">> -> <<"M","I","N","O","R">>
          [] s = <<"r","e","f","a","c","t","o","r">> -> <<"M","I","N","O","R">>
          [] s = <<"s","t","y","l","e">> -> <<"I","N","F","O">>
          [] OTHER -> <<"I","N","F","O">>

\* map_coderabbit_severity: severity_map.get(severity.lower(), 'MINOR')
map_coderabbit_severity(severity) ==
    LET s == Lower(severity)
    IN  CASE s = <<"c","r","i","t","i","c","a","l">> -> <<"C","R","I","T","I","C","A","L">>
          [] s = <<"m","a","j","o","r">> -> <<"M","A","J","O","R">>
          [] s = <<"m","i","n","o","r">> -> <<"M","I","N","O","R">>
          [] s = <<"r","e","f","a","c","t","o","r">> -> <<"M","I","N","O","R">>
          [] s = <<"s","t","y","l","e">> -> <<"I","N","F","O">>
          [] OTHER -> <<"M","I","N","O","R">>

\* str(n) for the line numbers of the model
Str(n) ==
    LET d == <<"0","1","2","3","4","5","6","7","8","9">>
    IN  IF n < 10 THEN <<d[n + 1]>> ELSE <<d[(n \div 10) + 1], d[(n % 10) + 1]>>

\* hashlib.md5(key.encode()).hexdigest()[:8], taken as collision-free:
\* the digest stands for the key it was computed from
hash_suffix(key) == key

\* ingest_coderabbit: the Issue built from one item of the report
coderabbit_issue(item) ==
    [id        |-> <<"c","r","-">> \o item.pr \o <<"-">>
                     \o hash_suffix(item.file \o Str(item.line)),
     source    |-> "coderabbit",
     severity  |-> map_coderabbit_severity(item.severity),
     rule_id   |-> <<"C","R","-">> \o item.severity,
     file_path |-> item.file,
     line      |-> item.line,
     message   |-> item.summary,
     category  |-> "refactor",
     raw_data  |-> item]

----------------------------------------------------------------------------
\* the complexity tested before the category
queue_dir_complexity_first(job) ==
    IF job.job_type = "SPEED"
    THEN (IF job.pattern # None THEN <<"SPEED-JOBS", job.pattern>>
          ELSE <<"SPEED-JOBS", "pattern-general">>)
    ELSE IF job.job_type = "DEEP"
    THEN (IF job.complexity_score >= ArchitectureThreshold
          THEN <<"DEEP-JOBS", "architecture-changes">>
          ELSE IF job.issue.category = "security"
               THEN <<"DEEP-JOBS", "security-sensitive">>
               ELSE <<"DEEP-JOBS", "new-patterns">>)
    ELSE IF job.job_type = "SKIP" THEN <<"SKIP-JOBS">>
    ELSE <<"FAILED-ROUTING">>

\* save_job: the queue directory of a job, below JOB-QUEUES
queue_dir(job) ==
    IF job.job_type = "SPEED"
    THEN (IF job.pattern # None THEN <<"SPEED-JOBS", job.pattern>>
          ELSE <<"SPEED-JOBS", "pattern-general">>)
    ELSE IF job.job_type = "DEEP"
    THEN (IF job.issue.category = "security" THEN <<"DEEP-JOBS", "security-sensitive">>
          ELSE IF job.complexity_score >= ArchitectureThreshold
               THEN <<"DEEP-JOBS", "architecture-changes">>
               ELSE <<"DEEP-JOBS", "new-patterns">>)
    ELSE IF job.job_type = "SKIP" THEN <<"SKIP-JOBS">>
    ELSE <<"FAILED-ROUTING">>

\* f'{job.job_type.lower()}_jobs'
stats_key(job) ==
    CASE job.job_type = "SPEED" -> "speed_jobs"
      [] job.job_type = "DEEP" -> "deep_jobs"
      [] job.job_type = "SKIP" -> "skip_jobs"
      [] OTHER -> "failed-routing_jobs"

\* a file name that carries the time of creation, f"{job.id}-{job.created_at}.json"
WriteFile_timestamped(files, job, complete) ==
    LET key == <<queue_dir(job), job.id, job.created_at>>
    IN  [k \in DOMAIN files \cup {key} |->
           IF k = key THEN [complete |-> complete, job |-> job] ELSE files[k]]

\* the file job_file after open(job_file, 'w') and json.dump
WriteFile(files, job, complete) ==
    LET key == <<queue_dir(job), job.id>>
    IN  [k \in DOMAIN files \cup {key} |->
           IF k = key THEN [complete |-> complete, job |-> job] ELSE files[k]]

\* self.stats[key] += 1
Increment(st, key) == [st EXCEPT ![key] = @ + 1]

\* get_queue_status: for each queue, the *.json files in the directories
\* directly under the queue's directory
get_queue_status(files) ==
    [queue_type \in {"SPEED-JOBS", "DEEP-JOBS", "SKIP-JOBS"} |->
        Cardinality({k \in DOMAIN files : k[1][1] = queue_type /\ Len(k[1]) = 2})]

----------------------------------------------------------------------------
\* Inputs.

Envs == [file_exists : BOOLEAN,
         blame : {"nonzero", "fix_commit", "other", "raises"},
         git_log : {"hit", "none"}]

\* the answers process_issues gets in the model: git log finds no similar fix
ProcessEnvs == {e \in Envs : e.git_log = "none"}

\* outcome of writing one job file: written, open() raises, json.dump raises midway
WriteOutcomes == {"ok", "open_raises", "dump_raises"}

Severities ==
    { <<"B","L","O","C","K","E","R">>, <<"C","R","I","T","I","C","A","L">>,
      <<"M","A","J","O","R">>, <<"M","I","N","O","R">>, <<"I","N","F","O">>,
      <<"U","N","K","N","O","W","N">> }

RuleIds ==
    { <<"t","y","p","e","s","c","r","i","p","t",":","S","3","5","1","6">>,
      <<"s","o","n","a","r","-","S","3","5","1","6">>,
      <<"t","y","p","e","s","c","r","i","p","t","-","m","i","s","s","i","n","g","-","a","w","a","i","t">>,
      <<"T","S","m","i","s","s","i","n","g","-","a","w","a","i","t">>,
      <<"T","S","2","3","0","7">>,
      <<"C","R","-","s","t","y","l","e">>,
      <<"t","y","p","e","s","c","r","i","p","t",":","S","4","5","0","2">>,
      <<"S","1","2","8","2","3","4","5">> }

FilePaths ==
    { <<"p","r","o","j",":","s","r","c","/","a","p","i","/","p","a","y",".","t","s">>,
      <<"s","r","c","/","u","t","i","l","s","/","d","a","t","e",".","t","s">>,
      <<"f","o","o",".","t","s">>,
      <<"s","r","c","/","A","u","t","h","/","l","o","g","i","n",".","t","s">>,
      <<"s","r","c","/","c","o","m","p","o","n","e","n","t","s","/","A","u","t","h","F","o","r","m",".","t","s","x">>,
      <<"s","r","c","/","l","i","b","/","a","u","t","h","o","r","s",".","t","s">>,
      <<"s","r","c","/","P","A","Y","M","E","N","T","/","c","a","r","d",".","t","s">>,
      \* item.get('file', ''): the record names no file
      << >> }

Categories == {"security", "performance", "maintainability", "imports"}

CodeRabbitItems ==
    [file : { <<"s","r","c","/","u","t","i","l","s","/","d","a","t","e",".","t","s">>,
              <<"s","r","c","/","a","p","i","/","p","a","y",".","t","s">> },
     line : {5},
     severity : { <<"s","t","y","l","e">>, <<"S","t","y","l","e">>,
                  <<"c","r","i","t","i","c","a","l">>, <<"n","i","t">>,
                  <<"m","a","j","o","r">>, <<"m","i","n","o","r">>,
                  <<"r","e","f","a","c","t","o","r">> },
     summary : {"prefer const"},
     pr : { <<"7">>, <<"8">> }]

\* the issues route_issue is called with directly
RouteIssues ==
    [id : { <<"i","1">> }, source : {"sonarqube"}, severity : Severities,
     rule_id : RuleIds, file_path : FilePaths, line : {10}, message : {"m"},
     category : Categories,
     raw_data : { [status |-> "NEW"], [key |-> "k"] }]
    \cup { coderabbit_issue(item) : item \in CodeRabbitItems }

\* the issues process_issues is given
InputIssues ==
    { \* Scenario A: critical security finding under an api path
      [id |-> <<"i","1">>, source |-> "sonarqube",
       severity |-> <<"C","R","I","T","I","C","A","L">>,
       rule_id |-> <<"t","y","p","e","s","c","r","i","p","t",":","S","4","5","0","2">>,
       file_path |-> <<"p","r","o","j",":","s","r","c","/","a","p","i","/","p","a","y",".","t","s">>,
       line |-> 10, message |-> "missing auth check", category |-> "security",
       raw_data |-> [status |-> "NEW"]] }
    \* Scenario B: CodeRabbit style findings of two pull requests
    \cup { coderabbit_issue(item) : item \in
             {it \in CodeRabbitItems : it.severity = <<"s","t","y","l","e">>
                                       /\ ~Contains(it.file, <<"/","a","p","i","/">>)} }

\* the lists of at most n issues
RECURSIVE Lists(_)
Lists(n) ==
    IF n = 0 THEN {<<>>}
    ELSE Lists(n - 1) \cup {Append(l, i) : l \in {m \in Lists(n - 1) : Len(m) = n - 1},
                                           i \in InputIssues}

----------------------------------------------------------------------------
\* WedSyncOrchestrator.__init__
InitStats ==
    [total_issues |-> 0, speed_jobs |-> 0, deep_jobs |-> 0, skip_jobs |-> 0,
     failed_routing |-> 0]

Init ==
    /\ patterns = default_patterns
    /\ stats = InitStats
    /\ store = << >>
    /\ pc = "idle"
    /\ issues = << >>
    /\ idx = 0
    /\ routed = << >>
    /\ scored = {}
    /\ clock = 0
    /\ runs = 0
    /\ arg = << >>
    /\ ret = << >>
    /\ mpc = "idle"
    /\ unread = 0
    /\ all_issues = << >>
    /\ ingested = << >>
    /\ BatchIdle
    /\ DisasterIdle

\* a caller enters process_issues(list)
StartProcess ==
    /\ pc \in {"idle", "done"}
    /\ runs < MaxRuns
    /\ \E list \in Lists(MaxIssues) : issues' = list
    /\ idx' = 0
    /\ routed' = << >>
    /\ pc' = "processing"
    /\ runs' = runs + 1
    /\ UNCHANGED <<patterns, stats, store, scored, clock, arg, ret>>
    /\ UNCHANGED mainVars
    /\ UNCHANGED <<batchVars, disasterVars>>

\* what one calculate_complexity call adds to the record of scores
Scored(issue, env) ==
    IF check_already_resolved(issue, env) THEN {}
    ELSE {<<issue, calculate_complexity(issue)>>}

\* one iteration of the loop of process_issues: route_issue, then save_job
ProcessIssue ==
    /\ pc = "processing"
    /\ idx < Len(issues)
    /\ \E env \in ProcessEnvs, w \in WriteOutcomes :
         LET issue == issues[idx + 1]
             job == route_issue(issue, env, clock)
         IN  /\ routed' = Append(routed, job)
             /\ scored' = scored \cup Scored(issue, env)
             /\ clock' = clock + 1
             /\ IF w = "ok" /\ stats_key(job) \in DOMAIN stats
                THEN /\ store' = WriteFile(store, job, TRUE)
                     /\ stats' = Increment(stats, stats_key(job))
                     /\ idx' = idx + 1
                     /\ pc' = pc
                ELSE \* the exception leaves save_job and process_issues
                     /\ store' = IF w = "open_raises" THEN store
                                 ELSE WriteFile(store, job, w = "ok")
                     /\ pc' = "raised"
                     /\ UNCHANGED <<stats, idx>>
    /\ UNCHANGED <<patterns, issues, runs, arg, ret>>
    /\ UNCHANGED mainVars
    /\ UNCHANGED <<batchVars, disasterVars>>

\* the end of process_issues, after the loop
FinishProcess ==
    /\ pc = "processing"
    /\ idx = Len(issues)
    /\ stats' = [stats EXCEPT !.total_issues = Len(issues)]
    /\ pc' = "done"
    /\ UNCHANGED <<patterns, store, issues, idx, routed, scored, clock, runs, arg, ret>>
    /\ UNCHANGED mainVars
    /\ UNCHANGED <<batchVars, disasterVars>>

\* the process ends and a new orchestrator is constructed over the same
\* base path: the job files and the saved pattern library stay
Restart ==
    /\ pc \in {"done", "raised"}
    /\ patterns' = patterns
    /\ stats' = InitStats
    /\ pc' = "idle"
    /\ issues' = << >>
    /\ idx' = 0
    /\ routed' = << >>
    /\ UNCHANGED <<store, scored, clock, runs, arg, ret>>
    /\ UNCHANGED mainVars
    /\ UNCHANGED <<batchVars, disasterVars>>

Next == StartProcess \/ ProcessIssue \/ FinishProcess \/ Restart

Spec == Init /\ [][Next]_vars

----------------------------------------------------------------------------
\* Direct calls of route_issue over the whole input space.

RouteArgs == [issue : RouteIssues, env : Envs]

InitRoute ==
    /\ patterns = default_patterns
    /\ stats = InitStats
    /\ store = << >>
    /\ pc = "idle"
    /\ issues = << >>
    /\ idx = 0
    /\ routed = << >>
    /\ scored = {}
    /\ clock = 0
    /\ runs = 0
    /\ \E a \in RouteArgs : arg = <<a>>
    /\ ret = << >>
    /\ mpc = "idle"
    /\ unread = 0
    /\ all_issues = << >>
    /\ ingested = << >>
    /\ BatchIdle
    /\ DisasterIdle

CallRouteIssue ==
    /\ ret = << >>
    /\ ret' = <<route_issue(arg[1].issue, arg[1].env, clock)>>
    /\ scored' = scored \cup Scored(arg[1].issue, arg[1].env)
    /\ clock' = clock + 1
    /\ UNCHANGED <<patterns, stats, store, pc, issues, idx, routed, runs, arg>>
    /\ UNCHANGED mainVars
    /\ UNCHANGED <<batchVars, disasterVars>>

\* a direct call of save_job with the Job route_issue returned
CallSaveJob ==
    /\ ret # << >>
    /\ pc = "idle"
    /\ \E w \in WriteOutcomes :
         LET job == ret[1]
         IN  IF w = "ok" /\ stats_key(job) \in DOMAIN stats
             THEN /\ store' = WriteFile(store, job, TRUE)
                  /\ stats' = Increment(stats, stats_key(job))
                  /\ pc' = "saved"
             ELSE /\ store' = IF w = "open_raises" THEN store
                              ELSE WriteFile(store, job, w = "ok")
                  /\ pc' = "raised"
                  /\ UNCHANGED stats
    /\ UNCHANGED <<patterns, issues, idx, routed, scored, clock, runs, arg, ret>>
    /\ UNCHANGED mainVars
    /\ UNCHANGED <<batchVars, disasterVars>>

NextRoute == CallRouteIssue \/ CallSaveJob

SpecRoute == InitRoute /\ [][NextRoute]_vars

----------------------------------------------------------------------------
\* Ingestion of report files by main().

\* c.upper() for one character
UpperChar(c) ==
    CASE c = "a" -> "A" [] c = "b" -> "B" [] c = "c" -> "C" [] c = "d" -> "D"
      [] c = "e" -> "E" [] c = "f" -> "F" [] c = "g" -> "G" [] c = "h" -> "H"
      [] c = "i" -> "I" [] c = "j" -> "J" [] c = "k" -> "K" [] c = "l" -> "L"
      [] c = "m" -> "M" [] c = "n" -> "N" [] c = "o" -> "O" [] c = "p" -> "P"
      [] c = "q" -> "Q" [] c = "r" -> "R" [] c = "s" -> "S" [] c = "t" -> "T"
      [] c = "u" -> "U" [] c = "v" -> "V" [] c = "w" -> "W" [] c = "x" -> "X"
      [] c = "y" -> "Y" [] c = "z" -> "Z" [] OTHER -> c

\* s.upper()
Upper(s) == [i \in 1..Len(s) |-> UpperChar(s[i])]

\* d.get(key, default)
GetOr(d, key, default) == IF key \in DOMAIN d THEN d[key] ELSE default

\* f"{d.get(key)}" for a string field: "None" when the key is absent
Fmt(d, key) == IF key \in DOMAIN d THEN d[key] ELSE <<"N","o","n","e">>

\* categorize_sonar_rule
categorize_sonar_rule(rule) ==
    LET security_rules == {<<"S","2","0","6","8">>, <<"S","2","0","7","0">>, <<"S","3","6","4","9">>, <<"S","4","5","0","2">>, <<"S","5","1","2","2">>}
        performance_rules == {<<"S","1","8","5","4">>, <<"S","1","4","8","1">>, <<"S","3","7","7","6">>}
        maintainability_rules == {<<"S","3","5","1","6">>, <<"S","1","2","8">>, <<"S","1","1","7","2">>}
    IN  IF \E r \in security_rules : Contains(rule, r) THEN "security"
        ELSE IF \E r \in performance_rules : Contains(rule, r) THEN "performance"
        ELSE IF \E r \in maintainability_rules : Contains(rule, r) THEN "maintainability"
        ELSE "general"

\* an id that numbers the issues of the run, f"sonar-{rule}-{len(all_issues)}"
sonar_issue_numbered(item) ==
    [id        |-> <<"s","o","n","a","r","-">> \o Fmt(item, "rule") \o <<"-">> \o Str(Len(all_issues)),
     source    |-> "sonarqube",
     severity  |-> Upper(GetOr(item, "severity", <<"U","N","K","N","O","W","N">>)),
     rule_id   |-> GetOr(item, "rule", << >>),
     file_path |-> GetOr(item, "component", << >>),
     line      |-> GetOr(item, "line", 0),
     message   |-> GetOr(item, "message", ""),
     category  |-> categorize_sonar_rule(GetOr(item, "rule", << >>)),
     raw_data  |-> item]

\* ingest_sonarqube, standard format: the Issue built from one item
sonar_issue(item) ==
    [id        |-> <<"s","o","n","a","r","-">> \o Fmt(item, "rule") \o <<"-">>
                     \o hash_suffix(Fmt(item, "component") \o Str(item.line)),
     source    |-> "sonarqube",
     severity  |-> Upper(GetOr(item, "severity", <<"U","N","K","N","O","W","N">>)),
     rule_id   |-> GetOr(item, "rule", << >>),
     file_path |-> GetOr(item, "component", << >>),
     line      |-> GetOr(item, "line", 0),
     message   |-> GetOr(item, "message", ""),
     category  |-> categorize_sonar_rule(GetOr(item, "rule", << >>)),
     raw_data  |-> item]

\* ingest_sonarqube, WedSync custom format: the Issue built from one item
\* of the category keyed by severity
custom_issue(severity, item) ==
    [id        |-> GetOr(item, "id",
                     <<"s","o","n","a","r","-">> \o Fmt(item, "rule") \o <<"-">>
                       \o hash_suffix(Fmt(item, "file") \o Str(item.line))),
     source    |-> "sonarqube",
     severity  |-> Upper(GetOr(item, "severity", severity)),
     rule_id   |-> GetOr(item, "rule", << >>),
     file_path |-> GetOr(item, "file", << >>),
     line      |-> GetOr(item, "line", 0),
     message   |-> GetOr(item, "message", ""),
     category  |-> categorize_sonar_rule(GetOr(item, "rule", << >>)),
     raw_data  |-> item]

\* the issues of the categories of a custom report, in the order of the mapping
RECURSIVE custom_issues(_)
custom_issues(categories) ==
    IF categories = << >> THEN << >>
    ELSE LET severity == categories[1][1]
             items == GetOr(categories[1][2], "issues", << >>)
         IN  [i \in 1..Len(items) |-> custom_issue(severity, items[i])]
             \o custom_issues(Tail(categories))

\* ingest_sonarqube: a report that cannot be decoded or parsed gives []
ingest_sonarqube(report) ==
    IF report.state # "ok" THEN [raised |-> FALSE, issues |-> << >>]
    ELSE IF "error_categories" \in DOMAIN report.data
    THEN [raised |-> FALSE, issues |-> custom_issues(report.data.error_categories)]
    ELSE LET items == GetOr(report.data, "issues", << >>)
         IN  [raised |-> FALSE, issues |-> [i \in 1..Len(items) |-> sonar_issue(items[i])]]

\* ingest_coderabbit: open() and json.load() are not guarded
ingest_coderabbit(report) ==
    IF report.state # "ok" THEN [raised |-> TRUE, issues |-> << >>]
    ELSE [raised |-> FALSE,
          issues |-> [i \in 1..Len(report.data) |-> coderabbit_issue(report.data[i])]]

\* main(), --process-everything: the ingester chosen by the file name
ingest_file(report) ==
    LET name == Lower(report.name)
    IN  IF Contains(name, <<"s","o","n","a","r","q","u","b","e">>) THEN ingest_sonarqube(report)
        ELSE IF Contains(name, <<"c","o","d","e","r","a","b","b","i","t">>) THEN ingest_coderabbit(report)
        ELSE IF Contains(name, <<"p","e","r","f","o","r","m","a","n","c","e">>) THEN ingest_coderabbit(report)
        ELSE IF Contains(name, <<"s","y","n","t","h","e","t","i","c">>) THEN ingest_sonarqube(report)
        ELSE IF Contains(name, <<"p","r","o","d","u","c","t","i","o","n">>) THEN ingest_sonarqube(report)
        ELSE IF Contains(name, <<"r","e","a","l","i","s","t","i","c">>) THEN ingest_sonarqube(report)
        ELSE [raised |-> FALSE, issues |-> << >>]

\* Inputs of the ingestion.
MaxReports == 2

SonarItems ==
    { \* Scenario A
      [component |-> <<"p","r","o","j",":","s","r","c","/","a","p","i","/","p","a","y",".","t","s">>, line |-> 10,
       severity |-> <<"c","r","i","t","i","c","a","l">>, rule |-> <<"S","4","5","0","2">>,
       message |-> "missing auth check"],
      \* a second finding of the same rule on the same line
      [component |-> <<"p","r","o","j",":","s","r","c","/","a","p","i","/","p","a","y",".","t","s">>, line |-> 10,
       severity |-> <<"c","r","i","t","i","c","a","l">>, rule |-> <<"S","4","5","0","2">>,
       message |-> "missing csrf check"],
      \* no severity
      [component |-> <<"p","r","o","j",":","s","r","c","/","a",".","t","s">>, line |-> 3,
       rule |-> <<"S","1","2","8">>, message |-> "m"],
      \* a blank severity
      [component |-> <<"p","r","o","j",":","s","r","c","/","a",".","t","s">>, line |-> 4, severity |-> << >>,
       rule |-> <<"S","1","2","8">>, message |-> "m"],
      \* no component: the finding names no file
      [line |-> 5, severity |-> <<"m","a","j","o","r">>, rule |-> <<"S","1","1","7","2">>, message |-> "m"] }

\* the sequences of one or two items
Seqs12(S) == {<<x>> : x \in S} \cup {<<x, y>> : x \in S, y \in S}

SonarReports ==
    { [name |-> <<"s","o","n","a","r","q","u","b","e","-","r","e","s","u","l","t","s",".","j","s","o","n">>, state |-> "ok", data |-> [issues |-> items]] :
        items \in Seqs12(SonarItems) }
    \cup
    { [name |-> <<"S","o","n","a","r","Q","u","b","e","-","c","u","s","t","o","m",".","j","s","o","n">>, state |-> "ok",
       data |-> [error_categories |->
                   << <<<<"m","a","j","o","r">>, [issues |-> << [file |-> <<"s","r","c","/","a",".","t","s">>, line |-> 3,
                                                rule |-> <<"S","1","2","8">>, message |-> "m"] >>]>>,
                      <<<<"m","i","n","o","r">>, [issues |-> << [file |-> <<"s","r","c","/","b",".","t","s">>, line |-> 7,
                                                severity |-> <<"B","l","o","c","k","e","r">>,
                                                rule |-> <<"S","3","5","1","6">>, message |-> "m"] >>]>> >>]] }

CodeRabbitReports ==
    { [name |-> n, state |-> "ok", data |-> <<item>>] :
        n \in {<<"c","o","d","e","r","a","b","b","i","t","-","p","r","7",".","j","s","o","n">>, <<"p","e","r","f","o","r","m","a","n","c","e","-","a","u","d","i","t",".","j","s","o","n">>},
        item \in {it \in CodeRabbitItems : it.pr = <<"7">>} }

\* files whose bytes do not decode or do not parse as JSON
BrokenReports ==
    [name : {<<"s","o","n","a","r","q","u","b","e","-","r","e","s","u","l","t","s",".","j","s","o","n">>, <<"c","o","d","e","r","a","b","b","i","t","-","p","r","7",".","j","s","o","n">>, <<"p","e","r","f","o","r","m","a","n","c","e","-","a","u","d","i","t",".","j","s","o","n">>},
     state : {"malformed", "undecodable"}, data : {<< >>}]

Reports ==
    SonarReports \cup CodeRabbitReports \cup BrokenReports
    \cup { [name |-> <<"n","o","t","e","s",".","j","s","o","n">>, state |-> "ok", data |-> << >>] }

InitIngest ==
    /\ patterns = default_patterns
    /\ stats = InitStats
    /\ store = << >>
    /\ pc = "idle"
    /\ issues = << >>
    /\ idx = 0
    /\ routed = << >>
    /\ scored = {}
    /\ clock = 0
    /\ runs = 0
    /\ arg = << >>
    /\ ret = << >>
    /\ mpc = "ingesting"
    /\ unread \in 1..MaxReports
    /\ all_issues = << >>
    /\ ingested = << >>
    /\ BatchIdle
    /\ DisasterIdle

\* one iteration of main()'s loop over the files of INCOMING/
IngestReport ==
    /\ mpc = "ingesting"
    /\ unread > 0
    /\ \E report \in Reports :
         LET result == ingest_file(report)
         IN  /\ ingested' = Append(ingested, [report |-> report, raised |-> result.raised,
                                              issues |-> result.issues])
             /\ all_issues' = all_issues \o result.issues
             /\ mpc' = IF result.raised THEN "raised" ELSE mpc
    /\ unread' = unread - 1
    /\ UNCHANGED <<patterns, stats, store, pc, issues, idx, routed, scored, clock, runs, arg, ret>>
    /\ UNCHANGED <<batchVars, disasterVars>>

\* the loop is over: all_issues is what process_issues will be given
FinishIngest ==
    /\ mpc = "ingesting"
    /\ unread = 0
    /\ mpc' = "ingested"
    /\ UNCHANGED <<patterns, stats, store, pc, issues, idx, routed, scored, clock, runs, arg, ret>>
    /\ UNCHANGED <<unread, all_issues, ingested>>
    /\ UNCHANGED <<batchVars, disasterVars>>

NextIngest == IngestReport \/ FinishIngest

SpecIngest == InitIngest /\ [][NextIngest]_vars

----------------------------------------------------------------------------
\* Runs of process_issues over the same issues: by a new orchestrator over
\* empty queues in the order given and in another order, and once more by the
\* orchestrator of the first run.

\* the issues of a run: the input issues and what ingest_sonarqube makes of
\* the findings
OrderIssues == InputIssues \cup {sonar_issue(item) : item \in SonarItems}

\* the lists of 1..n of these issues
RECURSIVE OrderLists(_)
OrderLists(n) ==
    IF n = 1 THEN {<<i>> : i \in OrderIssues}
    ELSE OrderLists(n - 1) \cup {Append(l, i) : l \in {m \in OrderLists(n - 1) : Len(m) = n - 1},
                                                i \in OrderIssues}

\* the orders in which a list can be given
Permuted(list) ==
    {[i \in 1..Len(list) |-> list[f[i]]] :
        f \in {g \in [1..Len(list) -> 1..Len(list)] :
                 \A a, b \in 1..Len(list) : g[a] = g[b] => a = b}}

\* the loop of process_issues from a state st of queues, stats and clock
RECURSIVE ProcessFrom(_, _, _)
ProcessFrom(list, env, st) ==
    IF list = << >> \/ st.raised THEN st
    ELSE LET job == route_issue(Head(list), env, st.clock)
         IN  IF stats_key(job) \in DOMAIN st.stats
             THEN ProcessFrom(Tail(list), env,
                      [store  |-> WriteFile(st.store, job, TRUE),
                       stats  |-> Increment(st.stats, stats_key(job)),
                       clock  |-> st.clock + 1,
                       jobs   |-> Append(st.jobs, job),
                       raised |-> FALSE])
             ELSE [st EXCEPT !.raised = TRUE]

\* an orchestrator after __init__ over empty queues
NewOrchestrator ==
    [store |-> << >>, stats |-> InitStats, clock |-> 0, jobs |-> << >>, raised |-> FALSE]

\* process_issues(list) of an orchestrator in state st0: the queues and
\* stats it leaves and the jobs it saved
process_issues(list, env, st0) ==
    LET st == ProcessFrom(list, env, st0)
    IN  [store  |-> st.store,
         stats  |-> IF st.raised THEN st.stats
                    ELSE [st.stats EXCEPT !.total_issues = Len(list)],
         clock  |-> st.clock,
         jobs   |-> st.jobs,
         raised |-> st.raised]

InitOrder ==
    /\ patterns = default_patterns
    /\ stats = InitStats
    /\ store = << >>
    /\ pc = "idle"
    /\ issues = << >>
    /\ idx = 0
    /\ routed = << >>
    /\ scored = {}
    /\ clock = 0
    /\ runs = 0
    /\ arg \in {<<[issues |-> l, env |-> e]>> : l \in OrderLists(MaxIssues), e \in ProcessEnvs}
    /\ ret = << >>
    /\ mpc = "idle"
    /\ unread = 0
    /\ all_issues = << >>
    /\ ingested = << >>
    /\ BatchIdle
    /\ DisasterIdle

\* the run over the list as given
RunInOrder ==
    /\ pc = "idle"
    /\ LET result == process_issues(arg[1].issues, arg[1].env, NewOrchestrator)
       IN  /\ store' = result.store
           /\ stats' = result.stats
           /\ routed' = result.jobs
           /\ clock' = result.clock
           /\ pc' = IF result.raised THEN "raised" ELSE "done"
    /\ issues' = arg[1].issues
    /\ runs' = 1
    /\ UNCHANGED <<patterns, idx, scored, arg, ret>>
    /\ UNCHANGED mainVars
    /\ UNCHANGED <<batchVars, disasterVars>>

\* a second run over the same issues in some order
RunPermuted ==
    /\ pc = "done"
    /\ \E list \in Permuted(arg[1].issues) :
         ret' = <<[issues |-> list,
                   result |-> process_issues(list, arg[1].env, NewOrchestrator)]>>
    /\ pc' = "compared"
    /\ UNCHANGED <<patterns, stats, store, issues, idx, routed, scored, clock, runs, arg>>
    /\ UNCHANGED mainVars
    /\ UNCHANGED <<batchVars, disasterVars>>

\* the orchestrator of the first run is given the list once more
RunAgain ==
    /\ pc = "done"
    /\ LET result == process_issues(arg[1].issues, arg[1].env,
                          [store |-> store, stats |-> stats, clock |-> clock,
                           jobs |-> routed, raised |-> FALSE])
       IN  /\ store' = result.store
           /\ stats' = result.stats
           /\ routed' = result.jobs
           /\ clock' = result.clock
           /\ pc' = IF result.raised THEN "raised" ELSE "again"
    /\ runs' = runs + 1
    /\ UNCHANGED <<patterns, issues, idx, scored, arg, ret>>
    /\ UNCHANGED mainVars
    /\ UNCHANGED <<batchVars, disasterVars>>

NextOrder == RunInOrder \/ RunPermuted \/ RunAgain

SpecOrder == InitOrder /\ [][NextOrder]_vars

----------------------------------------------------------------------------
\* ingest_typescript: the output of tsc, line by line.

\* s.find(sep) + 1: the position of the first occurrence, 0 when there is none
Find(s, sep) ==
    IF Contains(s, sep)
    THEN Min({i \in 1..(Len(s) - Len(sep) + 1) : SubSeq(s, i, i + Len(sep) - 1) = sep})
    ELSE 0

\* s.split(sep)
RECURSIVE Split(_, _)
Split(s, sep) ==
    LET i == Find(s, sep)
    IN  IF i = 0 THEN <<s>>
        ELSE <<SubSeq(s, 1, i - 1)>> \o Split(SubSeq(s, i + Len(sep), Len(s)), sep)

\* sep.join(parts)
RECURSIVE Join(_, _)
Join(parts, sep) ==
    IF parts = << >> THEN << >>
    ELSE IF Len(parts) = 1 THEN parts[1]
    ELSE parts[1] \o sep \o Join(Tail(parts), sep)

\* s.strip(): the white space of the model is the blank
RECURSIVE Strip(_)
Strip(s) ==
    IF s = << >> THEN s
    ELSE IF s[1] = " " THEN Strip(Tail(s))
    ELSE IF s[Len(s)] = " " THEN Strip(SubSeq(s, 1, Len(s) - 1))
    ELSE s

Digits == <<"0","1","2","3","4","5","6","7","8","9">>

\* int(s) raises ValueError unless s is, white space aside, an optional sign
\* and decimal digits
IntRaises(s) ==
    LET t == Strip(s)
        u == IF t # << >> /\ t[1] \in {"+", "-"} THEN Tail(t) ELSE t
    IN  u = << >> \/ \E i \in 1..Len(u) : \A d \in 1..10 : u[i] # Digits[d]

RECURSIVE DigitsValue(_)
DigitsValue(u) ==
    IF u = << >> THEN 0
    ELSE 10 * DigitsValue(SubSeq(u, 1, Len(u) - 1))
         + (CHOOSE d \in 0..9 : Digits[d + 1] = u[Len(u)])

\* int(s) when it does not raise
Int_(s) ==
    LET t == Strip(s)
    IN  IF t[1] = "-" THEN 0 - DigitsValue(Tail(t))
        ELSE IF t[1] = "+" THEN DigitsValue(Tail(t))
        ELSE DigitsValue(t)

\* categorize_ts_error
categorize_ts_error(error_code) ==
    IF error_code \in {<<"2","3","4","5">>,<<"2","3","2","2">>,<<"2","3","3","9">>,<<"2","3","0","4">>} THEN "types"
    ELSE IF error_code \in {<<"1","3","0","8">>,<<"2","3","3","5">>,<<"2","7","9","4">>} THEN "async"
    ELSE IF error_code \in {<<"2","3","0","7">>,<<"2","3","0","6">>,<<"2","3","0","5">>} THEN "imports"
    ELSE "syntax"

\* map_ts_severity
map_ts_severity(error_code) ==
    IF error_code \in {<<"1","0","0","5">>,<<"1","1","0","9">>,<<"1","1","2","8">>} THEN <<"C","R","I","T","I","C","A","L">>
    ELSE IF error_code \in {<<"2","3","4","5">>,<<"2","3","2","2">>,<<"2","3","3","9">>} THEN <<"M","A","J","O","R">>
    ELSE <<"M","I","N","O","R">>

\* the body of the loop of ingest_typescript for one line of the file:
\* the line is passed over, gives an Issue, or int() raises ValueError
ingest_typescript_line(line) ==
    IF ~Contains(line, <<"e","r","r","o","r"," ","T","S">>) THEN [kind |-> "skip"]
    ELSE LET parts == Split(Strip(line), <<":"," ","e","r","r","o","r"," ","T","S">>)
         IN  IF Len(parts) < 2 THEN [kind |-> "skip"]
             ELSE LET file_info == parts[1]
                      error_info == parts[2]
                      file_path == Split(file_info, <<"(">>)[1]
                      line_info == IF Contains(file_info, <<"(">>)
                                   THEN Split(Split(file_info, <<"(">>)[2], <<")">>)[1]
                                   ELSE <<"0",",","0">>
                      number == Split(line_info, <<",">>)[1]
                  IN  IF line_info # << >> /\ IntRaises(number) THEN [kind |-> "raise"]
                      ELSE LET line_number == IF line_info # << >> THEN Int_(number) ELSE 0
                               error_code == Split(error_info, <<":">>)[1]
                               message == Strip(Join(Tail(Split(error_info, <<":">>)), <<":">>))
                           IN  [kind  |-> "issue",
                                issue |->
                                  [id        |-> <<"t","s","-">> \o error_code \o <<"-">>
                                                   \o hash_suffix(file_path \o Str(line_number)),
                                   source    |-> "typescript",
                                   severity  |-> map_ts_severity(error_code),
                                   rule_id   |-> <<"T","S">> \o error_code,
                                   file_path |-> file_path,
                                   line      |-> line_number,
                                   message   |-> message,
                                   category  |-> categorize_ts_error(error_code),
                                   raw_data  |-> [original_line |-> Strip(line)]]]

\* ingest_typescript over the lines of a file: the issues appended so far
\* and whether an error has left the function
RECURSIVE ingest_typescript(_)
ingest_typescript(lines) ==
    IF lines = << >> THEN [raised |-> FALSE, issues |-> << >>]
    ELSE LET first == ingest_typescript_line(Head(lines))
             rest == ingest_typescript(Tail(lines))
         IN  IF first.kind = "raise" THEN [raised |-> TRUE, issues |-> << >>]
             ELSE IF first.kind = "skip" THEN rest
             ELSE [raised |-> rest.raised,
                   issues |-> IF rest.raised THEN << >> ELSE <<first.issue>> \o rest.issues]

\* Inputs: lines of a tsc output file.
MaxLines == 2

TsLines ==
    {
      \* an import error
      <<"a",".","t","s","(","1","2",",","5",")",":"," ","e","r","r","o","r"," ","T","S","2","3","0","7",":"," ","n","o"," ","x">>,
      \* a type error
      <<"a",".","t","s","(","3",",","1",")",":"," ","e","r","r","o","r"," ","T","S","2","3","4","5",":"," ","b","a","d">>,
      \* a syntax error
      <<"a",".","t","s","(","7",",","2",")",":"," ","e","r","r","o","r"," ","T","S","1","0","0","5",":"," ",";"," ","e","x","p","e","c","t","e","d">>,
      \* the summary line of tsc
      <<"F","o","u","n","d"," ","3"," ","e","r","r","o","r","s",".">>,
      \* a blank line
      << >>,
      \* a position that is not a number
      <<"a",".","t","s","(","x",",","1",")",":"," ","e","r","r","o","r"," ","T","S","2","3","4","5",":"," ","b","a","d">>,
      \* an error text without file(line,col)
      <<"w","a","r","n","i","n","g",":"," ","e","r","r","o","r"," ","T","S","6","1","3","3",":"," ","u","n","u","s","e","d">>,
      \* an error text without the colons
      <<"a",".","t","s","(","4",",","1",")"," ","e","r","r","o","r"," ","T","S","2","3","2","2"," ","b","a","d">> }

RECURSIVE TsFiles(_)
TsFiles(n) ==
    IF n = 1 THEN {<<l>> : l \in TsLines}
    ELSE TsFiles(n - 1) \cup {Append(f, l) : f \in {g \in TsFiles(n - 1) : Len(g) = n - 1},
                                             l \in TsLines}

InitTs ==
    /\ patterns = default_patterns
    /\ stats = InitStats
    /\ store = << >>
    /\ pc = "idle"
    /\ issues = << >>
    /\ idx = 0
    /\ routed = << >>
    /\ scored = {}
    /\ clock = 0
    /\ runs = 0
    /\ arg \in {<<[lines |-> f]>> : f \in TsFiles(MaxLines)}
    /\ ret = << >>
    /\ mpc = "idle"
    /\ unread = 0
    /\ all_issues = << >>
    /\ ingested = << >>
    /\ BatchIdle
    /\ DisasterIdle

\* main() with --ingest-typescript: the call of ingest_typescript
CallIngestTypescript ==
    /\ pc = "idle"
    /\ LET result == ingest_typescript(arg[1].lines)
       IN  /\ ret' = <<result>>
           /\ all_issues' = result.issues
           /\ pc' = IF result.raised THEN "raised" ELSE "ingested"
    /\ UNCHANGED <<patterns, stats, store, issues, idx, routed, scored, clock, runs, arg>>
    /\ UNCHANGED <<mpc, unread, ingested>>
    /\ UNCHANGED <<batchVars, disasterVars>>

\* route_issue for one of the issues of the file
RouteTsIssue ==
    /\ pc = "ingested"
    /\ \E k \in 1..Len(all_issues), env \in Envs :
         routed' = <<route_issue(all_issues[k], env, clock)>>
    /\ pc' = "routed"
    /\ UNCHANGED <<patterns, stats, store, issues, idx, scored, clock, runs, arg, ret>>
    /\ UNCHANGED mainVars
    /\ UNCHANGED <<batchVars, disasterVars>>

NextTs == CallIngestTypescript \/ RouteTsIssue

SpecTs == InitTs /\ [][NextTs]_vars

----------------------------------------------------------------------------
\* DisasterRecoveryManager.handle_disaster_scenario (disaster-recovery-system.py).

DisasterTypes ==
    {"region_outage", "data_corruption", "ai_service_outage", "kubernetes_failure",
     "database_failure", "network_partition", "wedding_day_critical"}

\* ResponseStep(name, priority, timeout, description)
ResponseStep(name, timeout) == [name |-> name, timeout |-> timeout]

\* _initialize_response_plans: the steps of each plan
response_plans ==
    [disaster_type \in {"region_outage", "data_corruption", "ai_service_outage",
                        "wedding_day_critical"} |->
       CASE disaster_type = "region_outage" ->
              << ResponseStep("detect_outage", 60),
                 ResponseStep("activate_backup_region", 180),
                 ResponseStep("redirect_traffic", 120),
                 ResponseStep("sync_data_to_backup", 300),
                 ResponseStep("notify_stakeholders", 30) >>
         [] disaster_type = "data_corruption" ->
              << ResponseStep("isolate_corrupted_data", 30),
                 ResponseStep("restore_from_backup", 600),
                 ResponseStep("validate_restored_data", 180),
                 ResponseStep("resume_processing", 60) >>
         [] disaster_type = "ai_service_outage" ->
              << ResponseStep("switch_to_backup_ai_provider", 120),
                 ResponseStep("adjust_quality_thresholds", 60),
                 ResponseStep("queue_failed_jobs_for_retry", 180) >>
         [] disaster_type = "wedding_day_critical" ->
              << ResponseStep("escalate_to_on_call", 30),
                 ResponseStep("activate_maximum_resources", 60),
                 ResponseStep("prioritize_wedding_day_jobs", 30),
                 ResponseStep("enable_manual_processing_backup", 120),
                 ResponseStep("continuous_monitoring", 0) >>]

\* the context argument: None (the default) or a dict, with or without a
\* backup_type
Contexts ==
    {[is_none |-> TRUE], [is_none |-> FALSE],
     [is_none |-> FALSE, backup_type |-> "results"],
     [is_none |-> FALSE, backup_type |-> "models"]}

\* _execute_disaster_response_step: what the step can return ("True",
\* "False", "None") or that it raises, given the context and whether
\* initialize() has set redis_client. context.get(...) raises AttributeError
\* for context None; execute_regional_failover calls only functions that
\* log or catch their own errors; _redirect_traffic has no return statement;
\* restore_from_backup returns False when the S3 download fails;
\* _activate_maximum_resources reads failover_coordinator.k8s_autoscaling_v2,
\* which FailoverCoordinator never sets, inside its try and returns False.
execute_disaster_response_step(step, context, initialized) ==
    CASE step.name = "detect_outage" -> {"True"}
      [] step.name = "activate_backup_region" ->
           IF context.is_none THEN {"raise"} ELSE {"True"}
      [] step.name = "redirect_traffic" ->
           IF context.is_none THEN {"raise"} ELSE {"None"}
      [] step.name = "restore_from_backup" ->
           IF context.is_none THEN {"raise"} ELSE {"True", "False"}
      [] step.name = "switch_to_backup_ai_provider" ->
           IF initialized THEN {"True", "raise"} ELSE {"raise"}
      [] step.name = "escalate_to_on_call" -> {"True"}
      [] step.name = "activate_maximum_resources" -> {"False"}
      [] OTHER -> {"True"}

\* _calculate_data_loss
calculate_data_loss(disaster_type) ==
    IF disaster_type = "data_corruption" THEN 300
    ELSE IF disaster_type = "region_outage" THEN 60
    ELSE 0

DisasterInit ==
    /\ patterns = default_patterns
    /\ stats = InitStats
    /\ store = << >>
    /\ pc = "idle"
    /\ issues = << >>
    /\ idx = 0
    /\ routed = << >>
    /\ scored = {}
    /\ clock = 0
    /\ runs = 0
    /\ arg = << >>
    /\ ret = << >>
    /\ mpc = "idle"
    /\ unread = 0
    /\ all_issues = << >>
    /\ ingested = << >>
    /\ BatchIdle
    /\ DisasterIdle

\* handle_disaster_scenario is called: a type without a plan returns None
CallHandleDisaster ==
    /\ dpc = "idle"
    /\ \E disaster_type \in DisasterTypes, context \in Contexts, initialized \in BOOLEAN :
         /\ disaster' = <<[disaster_type |-> disaster_type, context |-> context,
                           initialized |-> initialized]>>
         /\ IF disaster_type \in DOMAIN response_plans
            THEN /\ dpc' = "executing"
                 /\ response' = response
            ELSE /\ dpc' = "returned"
                 /\ response' = <<None>>
    /\ step_idx' = 0
    /\ execution_results' = << >>
    /\ escalated' = << >>
    /\ UNCHANGED <<orchestratorVars, batchVars>>

\* one iteration of the loop over response_plan.steps: the step is executed,
\* its result recorded, and the loop goes on, escalates or breaks
ExecuteStep ==
    /\ dpc = "executing"
    /\ step_idx < Len(response_plans[disaster[1].disaster_type])
    /\ LET disaster_type == disaster[1].disaster_type
           step == response_plans[disaster_type][step_idx + 1]
       IN  \E result \in execute_disaster_response_step(step, disaster[1].context,
                                                        disaster[1].initialized) :
             IF result = "raise"
             THEN /\ execution_results' =
                       Append(execution_results,
                              [step_name |-> step.name, status |-> "error",
                               execution_time |-> step.timeout])
                  /\ escalated' = IF disaster_type = "wedding_day_critical"
                                  THEN Append(escalated, step.name) ELSE escalated
                  /\ dpc' = dpc
             ELSE /\ execution_results' =
                       Append(execution_results,
                              [step_name |-> step.name,
                               status |-> IF result = "True" THEN "success" ELSE "failed",
                               timeout |-> step.timeout, details |-> result])
                  /\ escalated' = IF result # "True" /\ disaster_type = "wedding_day_critical"
                                  THEN Append(escalated, step.name) ELSE escalated
                  /\ dpc' = IF result # "True" /\ disaster_type # "wedding_day_critical"
                            THEN "broke" ELSE dpc
    /\ step_idx' = step_idx + 1
    /\ UNCHANGED <<disaster, response>>
    /\ UNCHANGED <<orchestratorVars, batchVars>>

\* after the loop: the DisasterResponse is built and returned
ReturnResponse ==
    /\ \/ dpc = "broke"
       \/ dpc = "executing" /\ step_idx = Len(response_plans[disaster[1].disaster_type])
    /\ response' =
         <<[disaster_type |-> disaster[1].disaster_type,
            execution_results |-> execution_results,
            data_loss |-> calculate_data_loss(disaster[1].disaster_type),
            success |-> \A i \in 1..Len(execution_results) :
                           execution_results[i].status = "success"]>>
    /\ dpc' = "returned"
    /\ UNCHANGED <<disaster, step_idx, execution_results, escalated>>
    /\ UNCHANGED <<orchestratorVars, batchVars>>

NextDisaster == CallHandleDisaster \/ ExecuteStep \/ ReturnResponse

SpecDisaster == DisasterInit /\ [][NextDisaster]_vars

----------------------------------------------------------------------------
\* IntelligentBatchProcessor and the loop of CostOptimizationEngine
\* (cost-optimization-system.py). The estimated cost of a job and the cost
\* multipliers of the configurations only reach the log and are left out.

\* self.batch_queues, in the order process_batch_queues takes them
Priorities == <<"urgent", "standard", "low_priority">>

\* self.batch_configs
batch_configs ==
    [priority \in {"urgent", "standard", "low_priority"} |->
       CASE priority = "urgent" -> [max_batch_size |-> 1, max_wait_seconds |-> 0]
         [] priority = "standard" -> [max_batch_size |-> 10, max_wait_seconds |-> 300]
         [] priority = "low_priority" -> [max_batch_size |-> 25, max_wait_seconds |-> 1800]]

\* the payload add_to_batch_queue builds; job_id is f"job_{timestamp}", one
\* per call at the resolution of the clock
job_payload(job_id, document_type, priority, added_at) ==
    [job_id |-> job_id, job_data |-> [document_type |-> document_type],
     added_at |-> added_at, priority |-> priority]

\* redis lpush: the value becomes the head of the list
lpush(list, value) == <<value>> \o list

\* the wait check with the bound included: waiting also at exactly max_wait_seconds
wait_for_more_inclusive(priority, queue, at) ==
    LET config == batch_configs[priority]
        batch_size == Min({config.max_batch_size, Len(queue)})
    IN  /\ batch_size < config.max_batch_size
        /\ priority # "urgent"
        /\ at - queue[Len(queue)].added_at <= config.max_wait_seconds

\* _process_priority_queue on a non-empty queue: whether it returns 0 to
\* wait for more jobs; lindex(queue_name, -1) is the tail of the list
wait_for_more(priority, queue, at) ==
    LET config == batch_configs[priority]
        batch_size == Min({config.max_batch_size, Len(queue)})
    IN  /\ batch_size < config.max_batch_size
        /\ priority # "urgent"
        /\ at - queue[Len(queue)].added_at < config.max_wait_seconds

\* batch_size times rpop: the jobs taken from the tail, in the order taken
rpop_batch(queue, batch_size) ==
    [i \in 1..batch_size |-> queue[Len(queue) - i + 1]]

\* the keys of jobs_by_type in insertion order
RECURSIVE jobs_by_type_keys(_)
jobs_by_type_keys(batch_jobs) ==
    IF batch_jobs = << >> THEN << >>
    ELSE LET first == jobs_by_type_keys(SubSeq(batch_jobs, 1, Len(batch_jobs) - 1))
             doc_type == batch_jobs[Len(batch_jobs)].job_data.document_type
         IN  IF \E i \in 1..Len(first) : first[i] = doc_type THEN first
             ELSE Append(first, doc_type)

\* what the POST of one batch request may give
RequestOutcomes == {"200", "500", "raises"}

\* _process_job_batch: one request per document type, in the order of the
\* keys, until a request raises; the ids of the jobs of the requests answered
\* with 200, and whether an error left the function
process_job_batch(batch_jobs, outcome) ==
    LET keys == jobs_by_type_keys(batch_jobs)
        raised == \E i \in 1..Len(keys) : outcome[keys[i]] = "raises"
        sent == IF raised
                THEN Min({i \in 1..Len(keys) : outcome[keys[i]] = "raises"}) - 1
                ELSE Len(keys)
    IN  [raised   |-> raised,
         accepted |-> {batch_jobs[j].job_id : j \in
                         {k \in 1..Len(batch_jobs) :
                            \E i \in 1..sent :
                               /\ keys[i] = batch_jobs[k].job_data.document_type
                               /\ outcome[keys[i]] = "200"}}]

\* Inputs of the batch processor.
MaxAdds == 1

DocumentTypes == {"wedding_contract", "client_form"}

\* the times at which the model looks at the clock: the start and the two
\* waiting limits
TimePoints == {0} \cup {batch_configs[p].max_wait_seconds : p \in DOMAIN batch_configs}

\* a queue of n jobs that were added at time 0, the oldest at the tail
QueueOf(priority, n) ==
    [i \in 1..n |->
       job_payload(<<priority, n - i + 1>>,
                   IF (n - i) % 2 = 0 THEN "wedding_contract" ELSE "client_form",
                   priority, 0)]

\* the lengths of the three queues when the processor starts: below, at and
\* above max_batch_size
QueueLengths ==
    LET std == batch_configs["standard"].max_batch_size
        low == batch_configs["low_priority"].max_batch_size
    IN  { <<0, 0, 0>>, <<2, 0, 0>>, <<0, std - 1, 0>>, <<0, std + 1, 0>>,
          <<0, 0, low + 1>>, <<1, std, 1>> }

InitBatch ==
    /\ patterns = default_patterns
    /\ stats = InitStats
    /\ store = << >>
    /\ pc = "idle"
    /\ issues = << >>
    /\ idx = 0
    /\ routed = << >>
    /\ scored = {}
    /\ clock = 0
    /\ runs = 0
    /\ arg = << >>
    /\ ret = << >>
    /\ mpc = "idle"
    /\ unread = 0
    /\ all_issues = << >>
    /\ ingested = << >>
    /\ \E n \in QueueLengths :
         queues = [p \in {"urgent", "standard", "low_priority"} |->
                     QueueOf(p, CASE p = "urgent" -> n[1] [] p = "standard" -> n[2]
                                  [] OTHER -> n[3])]
    /\ time = 0
    /\ added = 0
    /\ accepted = {}
    /\ popped = {}
    /\ last_call = << >>
    /\ bpc = "idle"
    /\ DisasterIdle

\* add_to_batch_queue
AddToBatchQueue ==
    /\ added < MaxAdds
    /\ \E priority \in DOMAIN batch_configs, document_type \in DocumentTypes :
         queues' = [queues EXCEPT ![priority] =
                      lpush(@, job_payload(<<"job", added>>, document_type, priority, time))]
    /\ added' = added + 1
    /\ UNCHANGED <<time, accepted, popped, last_call, bpc>>
    /\ UNCHANGED <<orchestratorVars, disasterVars>>

\* the clock moves on
Tick ==
    /\ \E t \in TimePoints : t > time /\ time' = t
    /\ UNCHANGED <<queues, added, accepted, popped, last_call, bpc>>
    /\ UNCHANGED <<orchestratorVars, disasterVars>>

\* run_cost_optimization_loop: an iteration begins with process_batch_queues
StartIteration ==
    /\ bpc = "idle"
    /\ bpc' = Priorities[1]
    /\ UNCHANGED <<queues, time, added, accepted, popped, last_call>>
    /\ UNCHANGED <<orchestratorVars, disasterVars>>

\* the position after the queue of a priority: the next queue, or the rest
\* of the iteration and the sleep
NextPosition(priority) ==
    IF priority = Priorities[Len(Priorities)] THEN "idle"
    ELSE Priorities[(CHOOSE i \in 1..Len(Priorities) : Priorities[i] = priority) + 1]

\* _process_priority_queue for the queue in turn; an error of a batch request
\* leaves process_batch_queues and is caught by the loop, which sleeps
ProcessPriorityQueue ==
    /\ bpc # "idle"
    /\ LET priority == bpc
           queue == queues[priority]
           batch_size == Min({batch_configs[priority].max_batch_size, Len(queue)})
       IN  IF queue = << >> \/ wait_for_more(priority, queue, time)
           THEN /\ last_call' = <<[priority |-> priority, before |-> queue, at |-> time,
                                   batch |-> << >>, after |-> queue,
                                   returned |-> 0, raised |-> FALSE]>>
                /\ bpc' = NextPosition(priority)
                /\ UNCHANGED <<queues, accepted, popped>>
           ELSE \E outcome \in [DocumentTypes -> RequestOutcomes] :
                  LET batch_jobs == rpop_batch(queue, batch_size)
                      after == SubSeq(queue, 1, Len(queue) - batch_size)
                      result == process_job_batch(batch_jobs, outcome)
                  IN  /\ queues' = [queues EXCEPT ![priority] = after]
                      /\ popped' = popped \cup {batch_jobs[i].job_id : i \in 1..Len(batch_jobs)}
                      /\ accepted' = accepted \cup result.accepted
                      /\ last_call' = <<[priority |-> priority, before |-> queue, at |-> time,
                                         batch |-> batch_jobs, after |-> after,
                                         returned |-> IF result.raised THEN 0
                                                      ELSE Len(batch_jobs),
                                         raised |-> result.raised]>>
                      /\ bpc' = IF result.raised THEN "idle" ELSE NextPosition(priority)
    /\ UNCHANGED <<time, added>>
    /\ UNCHANGED <<orchestratorVars, disasterVars>>

NextBatch == AddToBatchQueue \/ Tick \/ StartIteration \/ ProcessPriorityQueue

SpecBatch == InitBatch /\ [][NextBatch]_vars

----------------------------------------------------------------------------
\* Properties.

\* a direct call of route_issue has returned; its argument and its Job
Called == ret # << >>
CalledIssue == arg[1].issue
CalledEnv == arg[1].env
CalledJob == ret[1]
CalledUnresolved == Called /\ ~check_already_resolved(CalledIssue, CalledEnv)

\* the job file of a job holds a complete record
Saved(job) ==
    /\ <<queue_dir(job), job.id>> \in DOMAIN store
    /\ store[<<queue_dir(job), job.id>>].complete

\* file_path.lower() contains one of the sensitive path segments
Sensitive(issue) == \E p \in sensitive_paths : Contains(Lower(issue.file_path), p)

\* C1: once process_issues has ended, every issue of its list has exactly one
\* Job from route_issue, of type SPEED, DEEP, SKIP or FAILED-ROUTING, and
\* that job is saved: no issue of the list is dropped.
C1_RoutingTotal ==
    pc \in {"done", "raised"} =>
        /\ Len(routed) = Len(issues)
        /\ \A i \in 1..Len(issues) :
             /\ routed[i].issue = issues[i]
             /\ routed[i].job_type \in {"SPEED", "DEEP", "SKIP", "FAILED-ROUTING"}
             /\ Saved(routed[i])

\* C2: for an issue that is not already resolved, route_issue gives SPEED
\* exactly when the complexity score is <= 3 and DEEP exactly when it is > 3.
C2_RoutingBoundary ==
    CalledUnresolved =>
        /\ CalledJob.complexity_score = calculate_complexity(CalledIssue)
        /\ CalledJob.job_type \in {"SPEED", "DEEP"}
        /\ CalledJob.job_type = "SPEED" <=> CalledJob.complexity_score <= 3
        /\ CalledJob.job_type = "DEEP" <=> CalledJob.complexity_score > 3

\* an unresolved issue scoring exactly 3 was routed to SPEED
C2_Witness ==
    /\ CalledUnresolved
    /\ CalledJob.complexity_score = 3
    /\ CalledJob.job_type = "SPEED"

\* C3: whenever check_already_resolved reports the issue as resolved,
\* route_issue returns a SKIP job with verification_level NONE,
\* estimated_minutes 1, pattern "already-resolved" and no required agents,
\* whatever the severity, path and category.
C3_ResolvedFirst ==
    (Called /\ check_already_resolved(CalledIssue, CalledEnv)) =>
        /\ CalledJob.job_type = "SKIP"
        /\ CalledJob.verification_level = "NONE"
        /\ CalledJob.estimated_minutes = 1
        /\ CalledJob.pattern = "already-resolved"
        /\ CalledJob.requires_agents = << >>

\* a resolved blocker security issue under a sensitive path was skipped
C3_Witness ==
    /\ Called
    /\ check_already_resolved(CalledIssue, CalledEnv)
    /\ CalledIssue.severity = <<"B","L","O","C","K","E","R">>
    /\ CalledIssue.category = "security"
    /\ Sensitive(CalledIssue)
    /\ CalledJob.job_type = "SKIP"

LibraryEntries(issue) ==
    {patterns[k] : k \in {issue.rule_id, pattern_key(issue)} \cap DOMAIN patterns}

\* C5: an issue whose rule_id names an entry of the pattern library, with no
\* sensitive path and no security/performance category, scores the
\* library's complexity whatever its severity: the single-return-refactor
\* rule (library complexity 2) scores 2 even at severity BLOCKER.
C5_LibraryOverride ==
    \A p \in scored :
        (/\ LibraryEntries(p[1]) # {}
         /\ ~Sensitive(p[1])
         /\ p[1].category \notin {"security", "performance"})
        => \E e \in LibraryEntries(p[1]) : p[2] = e.complexity

\* the severity base of the scoring table
C6_Base(severity) ==
    CASE severity = <<"B","L","O","C","K","E","R">> -> 8
      [] severity = <<"C","R","I","T","I","C","A","L">> -> 6
      [] severity = <<"M","A","J","O","R">> -> 4
      [] severity = <<"M","I","N","O","R">> -> 2
      [] severity = <<"I","N","F","O">> -> 1

C6_Sum(issue) ==
    C6_Base(issue.severity)
    + (IF Sensitive(issue) THEN 3 ELSE 0)
    + (IF issue.category = "security" THEN 4 ELSE 0)
    + (IF issue.category = "performance" THEN 2 ELSE 0)

\* C6: for every issue with no library match and a severity of the table,
\* calculate_complexity equals min(10, base(severity) + 3 for a sensitive
\* path + 4 for category security or 2 for category performance).
C6_Formula ==
    \A p \in scored :
        (/\ pattern_key(p[1]) \notin DOMAIN patterns
         /\ p[1].severity \in Severities \ { <<"U","N","K","N","O","W","N">> })
        => p[2] = (IF C6_Sum(p[1]) < 10 THEN C6_Sum(p[1]) ELSE 10)

\* a MINOR performance issue under a sensitive path was scored 2 + 3 + 2
C6_Witness ==
    \E p \in scored :
        /\ pattern_key(p[1]) \notin DOMAIN patterns
        /\ p[1].severity = <<"M","I","N","O","R">>
        /\ Sensitive(p[1])
        /\ p[1].category = "performance"
        /\ p[2] = 7

\* two issues equal in (severity, rule_id, file_path, category)
SameScoringInput(i, j) ==
    /\ i.severity = j.severity
    /\ i.rule_id = j.rule_id
    /\ i.file_path = j.file_path
    /\ i.category = j.category

\* C7: all calls of calculate_complexity on issues equal in (severity,
\* rule_id, file_path, category) have returned the same score, whatever was
\* routed and saved and whatever the statistics held between the calls.
C7_Deterministic ==
    /\ \A p, q \in scored : SameScoringInput(p[1], q[1]) => p[2] = q[2]
    /\ \A i, j \in 1..Len(routed) :
         (/\ routed[i].job_type # "SKIP"
          /\ routed[j].job_type # "SKIP"
          /\ SameScoringInput(routed[i].issue, routed[j].issue))
         => routed[i].complexity_score = routed[j].complexity_score

\* two distinct issues with equal scoring inputs were scored in one run, the
\* second after the first one's job was saved and counted
C7_Witness ==
    /\ Len(routed) = 2
    /\ idx = 2
    /\ routed[1].issue # routed[2].issue
    /\ SameScoringInput(routed[1].issue, routed[2].issue)
    /\ routed[1].job_type = "SPEED"
    /\ routed[2].job_type = "SPEED"
    /\ stats.speed_jobs = 2

\* the pattern of the first row of the rule-to-pattern table whose rule
\* fragment occurs in rule_id
C8_Pattern(rule_id) ==
    IF Contains(rule_id, <<"S","3","5","1","6">>) THEN "pattern-single-return"
    ELSE IF Contains(rule_id, <<"S","1","2","8">>) THEN "pattern-switch-cases"
    ELSE IF Contains(rule_id, <<"2","7","9","4">>) THEN "pattern-async-await"
    ELSE IF Contains(rule_id, <<"2","3","0","7">>) THEN "pattern-import-fixes"
    ELSE IF Contains(rule_id, <<"2","3","4","5">>) THEN "pattern-type-assertions"
    ELSE "pattern-general"

\* the issue of the call was ingested from a CodeRabbit item of severity "style"
CalledCodeRabbitStyle ==
    /\ CalledIssue.source = "coderabbit"
    /\ CalledIssue.raw_data.severity = <<"s","t","y","l","e">>

\* C8: every SPEED job has verification_level BASIC, estimated_minutes 5, no
\* required agents and the pattern of the first table fragment contained
\* in rule_id, "pattern-general" when there is none; an unresolved
\* CodeRabbit "style" issue outside the sensitive paths has severity INFO,
\* scores 1 and becomes a SPEED job with pattern "pattern-general".
C8_SpeedJob ==
    /\ (Called /\ CalledJob.job_type = "SPEED") =>
         /\ CalledJob.verification_level = "BASIC"
         /\ CalledJob.estimated_minutes = 5
         /\ CalledJob.requires_agents = << >>
         /\ CalledJob.pattern = C8_Pattern(CalledIssue.rule_id)
    /\ (Called /\ CalledCodeRabbitStyle) => CalledIssue.severity = <<"I","N","F","O">>
    /\ (CalledUnresolved /\ CalledCodeRabbitStyle /\ ~Sensitive(CalledIssue)) =>
         /\ CalledJob.complexity_score = 1
         /\ CalledJob.job_type = "SPEED"
         /\ CalledJob.pattern = "pattern-general"

\* a SPEED job for a rule_id that holds two fragments of the table
C8_Witness ==
    /\ Called
    /\ CalledJob.job_type = "SPEED"
    /\ CalledIssue.rule_id = <<"S","1","2","8","2","3","4","5">>
    /\ CalledJob.pattern = "pattern-switch-cases"

\* C9: every DEEP job has verification_level COMPREHENSIVE, pattern None and
\* estimated_minutes equal to 3 times its complexity_score.
C9_DeepJob ==
    (Called /\ CalledJob.job_type = "DEEP") =>
        /\ CalledJob.verification_level = "COMPREHENSIVE"
        /\ CalledJob.pattern = None
        /\ CalledJob.estimated_minutes = 3 * CalledJob.complexity_score

\* a DEEP job of score 10 estimated at 30 minutes
C9_Witness ==
    /\ Called
    /\ CalledJob.job_type = "DEEP"
    /\ CalledJob.complexity_score = 10
    /\ CalledJob.estimated_minutes = 30

\* a role is among the agents a job requires
Requires(job, role) == \E i \in 1..Len(job.requires_agents) : job.requires_agents[i] = role

\* C10 as stated: a DEEP job requires the security role exactly when the
\* category is security or file_path contains "auth", and the
\* architecture-review role exactly when complexity_score >= 8; SPEED and
\* SKIP jobs require no agents.
C10_Original ==
    Called =>
        IF CalledJob.job_type = "DEEP"
        THEN /\ Requires(CalledJob, "security-officer")
                  <=> (CalledIssue.category = "security"
                       \/ Contains(CalledIssue.file_path, <<"a","u","t","h">>))
             /\ Requires(CalledJob, "architecture-reviewer")
                  <=> CalledJob.complexity_score >= 8
        ELSE CalledJob.requires_agents = << >>

\* C10 amended: a DEEP job requires the security role exactly when the
\* category is security or the lower-cased file_path contains "auth" (the
\* match ignores case), and the architecture-review role exactly when
\* complexity_score >= 8; it requires no other role; SPEED and SKIP jobs
\* require no agents.
C10_Amended ==
    Called =>
        IF CalledJob.job_type = "DEEP"
        THEN /\ Requires(CalledJob, "security-officer")
                  <=> (CalledIssue.category = "security"
                       \/ Contains(Lower(CalledIssue.file_path), <<"a","u","t","h">>))
             /\ Requires(CalledJob, "architecture-reviewer")
                  <=> CalledJob.complexity_score >= 8
             /\ \A i \in 1..Len(CalledJob.requires_agents) :
                  CalledJob.requires_agents[i] \in {"security-officer", "architecture-reviewer"}
        ELSE CalledJob.requires_agents = << >>

\* a DEEP job of score exactly 8, outside category security, whose path
\* holds "Auth" in capitals requires both roles
C10_Witness ==
    /\ Called
    /\ CalledJob.job_type = "DEEP"
    /\ CalledJob.complexity_score = 8
    /\ CalledIssue.category # "security"
    /\ ~Contains(CalledIssue.file_path, <<"a","u","t","h">>)
    /\ Contains(Lower(CalledIssue.file_path), <<"a","u","t","h">>)
    /\ CalledJob.requires_agents = <<"security-officer", "architecture-reviewer">>

\* the records of the store whose job has a given id
RecordsOf(id) == {k \in DOMAIN store : k[2] = id}

\* a direct call of save_job has written the job of the call and returned
SavedCall == Called /\ pc = "saved"

\* C11: save_job stores a DEEP job in exactly one sub-bucket: category
\* security goes to "security-sensitive" whatever the complexity, otherwise
\* complexity >= 8 goes to "architecture-changes", otherwise "new-patterns";
\* a CRITICAL security issue under an api path scores 10 and lands in
\* "security-sensitive" with the security role required.
C11_DeepBucket ==
    (SavedCall /\ CalledJob.job_type = "DEEP") =>
        /\ RecordsOf(CalledJob.id) =
             { << <<"DEEP-JOBS",
                    IF CalledIssue.category = "security" THEN "security-sensitive"
                    ELSE IF CalledJob.complexity_score >= 8 THEN "architecture-changes"
                    ELSE "new-patterns">>,
                  CalledJob.id >> }
        /\ \A k \in RecordsOf(CalledJob.id) : store[k].complete /\ store[k].job = CalledJob
        /\ (/\ CalledIssue.severity = <<"C","R","I","T","I","C","A","L">>
            /\ CalledIssue.category = "security"
            /\ Contains(CalledIssue.file_path, <<"/","a","p","i","/">>))
           => /\ CalledJob.complexity_score = 10
              /\ Requires(CalledJob, "security-officer")
              /\ <<<<"DEEP-JOBS", "security-sensitive">>, CalledJob.id>> \in DOMAIN store

\* the critical security issue under src/api was saved, with score 10, in
\* "security-sensitive"
C11_Witness ==
    /\ SavedCall
    /\ CalledJob.job_type = "DEEP"
    /\ CalledIssue.severity = <<"C","R","I","T","I","C","A","L">>
    /\ CalledIssue.category = "security"
    /\ Contains(CalledIssue.file_path, <<"/","a","p","i","/">>)
    /\ CalledJob.complexity_score = 10
    /\ DOMAIN store = {<<<<"DEEP-JOBS", "security-sensitive">>, CalledJob.id>>}

\* C12: an issue that routing cannot classify (here: its required field
\* file_path is empty after normalization) gets a job of the
\* FAILED-ROUTING class, which save_job stores in the FAILED-ROUTING bucket
\* and counts in the statistics.
C12_FailedRouting ==
    (Called /\ CalledIssue.file_path = << >>) =>
        /\ CalledJob.job_type = "FAILED-ROUTING"
        /\ pc = "saved" =>
             /\ <<<<"FAILED-ROUTING">>, CalledJob.id>> \in DOMAIN store
             /\ stats.failed_routing = 1

\* C13: a failed write of one job's record does not end the batch: when
\* process_issues is over, by return or by an error, every issue of its
\* list has been routed.
C13_BatchContinues ==
    pc \in {"done", "raised"} =>
        \A i \in 1..Len(issues) : i <= Len(routed) /\ routed[i].issue = issues[i]

\* two jobs equal in everything but the time of creation
SameContent(j1, j2) == [j1 EXCEPT !.created_at = 0] = [j2 EXCEPT !.created_at = 0]

\* C15: the queues never hold two records of the same job id and the same
\* content: saving a job again overwrites its record, also when the same
\* input is processed repeatedly.
C15_Idempotent ==
    \A k1, k2 \in DOMAIN store :
        (k1[2] = k2[2] /\ SameContent(store[k1].job, store[k2].job)) => k1 = k2

\* the same issue was routed and saved twice with the same content, and the
\* queues hold one record
C15_Witness ==
    /\ idx = 2
    /\ routed[1].created_at # routed[2].created_at
    /\ SameContent(routed[1], routed[2])
    /\ Cardinality(DOMAIN store) = 1
    /\ \A k \in DOMAIN store : store[k].complete /\ store[k].job = routed[2]

\* the entries of the ingestion record that come from one ingester
FromSonar(e) ==
    \/ Contains(Lower(e.report.name), <<"s","o","n","a","r","q","u","b","e">>)
FromCodeRabbit(e) ==
    /\ ~FromSonar(e)
    /\ \/ Contains(Lower(e.report.name), <<"c","o","d","e","r","a","b","b","i","t">>)
       \/ Contains(Lower(e.report.name), <<"p","e","r","f","o","r","m","a","n","c","e">>)

\* C14: a report that is malformed JSON or undecodable, of whatever source
\* format, contributes zero issues and does not end the run: main() goes on
\* to the remaining reports.
C14_BrokenReportSkipped ==
    \A i \in 1..Len(ingested) :
        ingested[i].report.state # "ok" =>
            /\ ingested[i].issues = << >>
            /\ ~ingested[i].raised
            /\ mpc # "raised"

\* C16: every two distinct issues ingested in one run have distinct ids,
\* hence distinct job ids.
C16_DistinctIds ==
    \A i, j \in 1..Len(all_issues) :
        all_issues[i] # all_issues[j] =>
            /\ all_issues[i].id # all_issues[j].id
            /\ JobId(all_issues[i]) # JobId(all_issues[j])

\* a SonarQube report in the standard format that was read and parsed
StandardEntry(e) ==
    /\ FromSonar(e)
    /\ e.report.state = "ok"
    /\ "error_categories" \notin DOMAIN e.report.data

C19_Table(severity) ==
    CASE severity = <<"c","r","i","t","i","c","a","l">> -> <<"C","R","I","T","I","C","A","L">>
      [] severity = <<"m","a","j","o","r">> -> <<"M","A","J","O","R">>
      [] severity = <<"m","i","n","o","r">> -> <<"M","I","N","O","R">>
      [] severity = <<"r","e","f","a","c","t","o","r">> -> <<"M","I","N","O","R">>
      [] severity = <<"s","t","y","l","e">> -> <<"I","N","F","O">>
      [] OTHER -> <<"M","I","N","O","R">>

\* the issues ingested from CodeRabbit reports
CodeRabbitIngested ==
    {ingested[i].issues[k] : <<i, k>> \in
        {x \in (1..Len(ingested)) \X (1..1) :
            FromCodeRabbit(ingested[x[1]]) /\ x[2] <= Len(ingested[x[1]].issues)}}

\* C19 as stated: critical, major, minor, refactor and style map to
\* CRITICAL, MAJOR, MINOR, MINOR and INFO, every other value to MINOR.
C19_Original ==
    \A issue \in CodeRabbitIngested :
        issue.severity = C19_Table(issue.raw_data.severity)

\* C19 amended: the severity value is compared without regard to case:
\* critical, major, minor, refactor and style in any capitalisation map to
\* CRITICAL, MAJOR, MINOR, MINOR and INFO, every other value to MINOR.
C19_Amended ==
    \A issue \in CodeRabbitIngested :
        issue.severity = C19_Table(Lower(issue.raw_data.severity))

\* an issue of severity "Style", capitalised, was ingested as INFO, and one
\* of an unknown severity as MINOR
C19_Witness ==
    /\ \E issue \in CodeRabbitIngested :
         /\ issue.raw_data.severity = <<"S","t","y","l","e">>
         /\ issue.severity = <<"I","N","F","O">>
    /\ \E issue \in CodeRabbitIngested :
         /\ issue.raw_data.severity = <<"n","i","t">>
         /\ issue.severity = <<"M","I","N","O","R">>

\* C20: every Issue of a SonarQube ingestion has a severity of the
\* enumeration; an absent or blank severity becomes INFO.
C20_SonarSeverity ==
    \A i \in 1..Len(ingested) :
        (StandardEntry(ingested[i])) =>
            \A k \in 1..Len(ingested[i].issues) :
                LET issue == ingested[i].issues[k]
                IN  /\ issue.severity \in Severities \ { <<"U","N","K","N","O","W","N">> }
                    /\ ("severity" \notin DOMAIN issue.raw_data
                        \/ issue.raw_data.severity = << >>)
                       => issue.severity = <<"I","N","F","O">>

\* C18: a run over any permutation of a list of issues leaves the same job
\* records (ids, buckets and contents apart from created_at) and the same
\* run statistics as the run over the list.
C18_OrderIndependent ==
    pc = "compared" =>
        LET other == ret[1].result
        IN  /\ DOMAIN other.store = DOMAIN store
            /\ \A k \in DOMAIN store :
                 /\ other.store[k].complete = store[k].complete
                 /\ SameContent(other.store[k].job, store[k].job)
            /\ other.stats = stats

\* the component without its project-name prefix: what follows the first ":"
StripProject(component) ==
    IF \E i \in 1..Len(component) : component[i] = ":"
    THEN SubSeq(component, Min({i \in 1..Len(component) : component[i] = ":"}) + 1,
                Len(component))
    ELSE component

\* C21: the file_path of an Issue of a SonarQube-standard report is the
\* component without its project-name prefix: "proj:src/api/pay.ts" gives
\* "src/api/pay.ts".
C21_PrefixStripped ==
    \A i \in 1..Len(ingested) :
        StandardEntry(ingested[i]) =>
            \A k \in 1..Len(ingested[i].issues) :
                LET issue == ingested[i].issues[k]
                IN  "component" \in DOMAIN issue.raw_data =>
                        issue.file_path = StripProject(issue.raw_data.component)

\* C24: a finding without a file path is dropped by the ingestion: it is
\* not among the issues handed to process_issues, so no job is made for it.
C24_IncompleteDropped ==
    \A i \in 1..Len(all_issues) : all_issues[i].file_path # << >>

\* the job of the routed issue of a tsc output file
TsJob == routed[1]

\* C22: a tsc line with an import-error code (TS2307) gives an Issue of
\* severity MAJOR and category imports, which scores 4 and is routed to
\* DEEP with estimated_minutes 12.
C22_ImportError ==
    (pc = "routed" /\ TsJob.issue.rule_id = <<"T","S","2","3","0","7">>
       /\ TsJob.job_type # "SKIP") =>
        /\ TsJob.issue.severity = <<"M","A","J","O","R">>
        /\ TsJob.issue.category = "imports"
        /\ TsJob.complexity_score = 4
        /\ TsJob.job_type = "DEEP"
        /\ TsJob.estimated_minutes = 12

\* the lines of the shape file(line,col): error TS<code>: <message>
TsShaped ==
    { <<"a",".","t","s","(","1","2",",","5",")",":"," ","e","r","r","o","r"," ","T","S","2","3","0","7",":"," ","n","o"," ","x">>,
      <<"a",".","t","s","(","3",",","1",")",":"," ","e","r","r","o","r"," ","T","S","2","3","4","5",":"," ","b","a","d">>,
      <<"a",".","t","s","(","7",",","2",")",":"," ","e","r","r","o","r"," ","T","S","1","0","0","5",":"," ",";"," ","e","x","p","e","c","t","e","d">> }

\* the lines of that shape in a file, in the order of the file
RECURSIVE ShapedOf(_)
ShapedOf(lines) ==
    IF lines = << >> THEN << >>
    ELSE (IF Head(lines) \in TsShaped THEN <<Head(lines)>> ELSE << >>) \o ShapedOf(Tail(lines))

\* C23: ingest_typescript gives one Issue for each line of the shape
\* file(line,col): error TS<code>: <message>, in the order of the file, and
\* passes over every other line without raising.
C23_OtherLinesSkipped ==
    ret # << >> =>
        /\ ~ret[1].raised
        /\ Len(ret[1].issues) = Len(ShapedOf(arg[1].lines))
        /\ \A k \in 1..Len(ret[1].issues) :
             ret[1].issues[k].raw_data.original_line = ShapedOf(arg[1].lines)[k]

\* the number of jobs of a type among the jobs saved by the orchestrator
SavedOfType(type) == Cardinality({i \in 1..Len(routed) : routed[i].job_type = type})

\* C25: after any number of completed process_issues calls of one
\* orchestrator, speed_jobs + deep_jobs + skip_jobs + failed_routing is
\* total_issues, and each counter is the number of saved jobs of its type.
C25_StatsAccount ==
    pc \in {"done", "again"} =>
        /\ stats.speed_jobs + stats.deep_jobs + stats.skip_jobs + stats.failed_routing
             = stats.total_issues
        /\ stats.speed_jobs = SavedOfType("SPEED")
        /\ stats.deep_jobs = SavedOfType("DEEP")
        /\ stats.skip_jobs = SavedOfType("SKIP")
        /\ stats.failed_routing = SavedOfType("FAILED-ROUTING")

RecordsUnder(queue_type) == {k \in DOMAIN store : k[1][1] = queue_type}

\* C27: after save_job calls, get_queue_status reports for each of
\* SPEED-JOBS, DEEP-JOBS and SKIP-JOBS the number of job records stored
\* under that queue.
C27_StatusAgrees ==
    \A queue_type \in {"SPEED-JOBS", "DEEP-JOBS", "SKIP-JOBS"} :
        get_queue_status(store)[queue_type] = Cardinality(RecordsUnder(queue_type))

\* the plan of the running handle_disaster_scenario call
RunningPlan == response_plans[disaster[1].disaster_type]

\* C30: handle_disaster_scenario executes the steps of the plan in list
\* order; for every type but wedding_day_critical no step is executed after
\* a step that did not succeed (failing result or error); for
\* wedding_day_critical every step is executed; success is reported only if
\* every executed step succeeded.
C30_StopAtFirstFailure ==
    (dpc # "idle" /\ disaster[1].disaster_type \in DOMAIN response_plans) =>
        /\ Len(execution_results) <= Len(RunningPlan)
        /\ \A i \in 1..Len(execution_results) :
             execution_results[i].step_name = RunningPlan[i].name
        /\ disaster[1].disaster_type # "wedding_day_critical" =>
             \A i \in 1..(Len(execution_results) - 1) :
                 execution_results[i].status = "success"
        /\ (dpc = "returned" /\ disaster[1].disaster_type = "wedding_day_critical") =>
             Len(execution_results) = Len(RunningPlan)
        /\ dpc = "returned" =>
             (response[1].success =>
                \A i \in 1..Len(execution_results) :
                    execution_results[i].status = "success")

\* the ids of the jobs present in some batch queue
Queued ==
    UNION {{queues[p][i].job_id : i \in 1..Len(queues[p])} : p \in DOMAIN queues}

\* C28: no job is lost: every job _process_priority_queue has taken off a
\* queue was accepted by the AI processing service (HTTP 200) or is in some
\* queue, also when a batch request gave another status or raised.
C28_NoJobLost ==
    \A job_id \in popped : job_id \in accepted \/ job_id \in Queued

\* C29: a _process_priority_queue call for a non-urgent priority on a queue
\* with fewer than max_batch_size jobs whose oldest job has waited less than
\* max_wait_seconds removes nothing and returns 0; every other call on a
\* non-empty queue, and every call for urgent, removes exactly
\* min(max_batch_size, queue length) jobs, oldest first.
C29_BatchOrWait ==
    last_call # << >> =>
        LET call == last_call[1]
            config == batch_configs[call.priority]
            n == Len(call.before)
            holds_back == /\ call.priority # "urgent"
                          /\ n < config.max_batch_size
                          /\ call.at - call.before[n].added_at < config.max_wait_seconds
            size == IF n < config.max_batch_size THEN n ELSE config.max_batch_size
        IN  IF n = 0 THEN call.after = call.before /\ call.returned = 0
            ELSE IF holds_back
                 THEN call.after = call.before /\ call.batch = << >> /\ call.returned = 0
                 ELSE /\ Len(call.batch) = size
                      /\ \A i \in 1..size : call.batch[i] = call.before[n - i + 1]
                      /\ call.after = SubSeq(call.before, 1, n - size)
                      /\ ~call.raised => call.returned = size

\* a standard queue below max_batch_size was emptied, oldest first, when its
\* oldest job had waited exactly max_wait_seconds, and the same queue was
\* left alone by an earlier call
C29_Witness ==
    /\ last_call # << >>
    /\ last_call[1].priority = "standard"
    /\ Len(last_call[1].before) = batch_configs["standard"].max_batch_size - 1
    /\ last_call[1].at - last_call[1].before[Len(last_call[1].before)].added_at
         = batch_configs["standard"].max_wait_seconds
    /\ Len(last_call[1].batch) = Len(last_call[1].before)
    /\ last_call[1].batch[1] = last_call[1].before[Len(last_call[1].before)]
    /\ last_call[1].after = << >>
    /\ last_call[1].returned = Len(last_call[1].before)

====
